---- MODULE Spec2Model ----
(***************************************************************************)
(* A model of the user registry: the in-memory record store `Data`         *)
(* (user_registry_lib/src/data.rs), the `User` record (user.rs), the       *)
(* load/save functions read_data / save_data (src/command/data.rs) and    *)
(* the commands add, get, remove, reset, show (src/command.rs, write.rs).   *)
(***************************************************************************)
EXTENDS Integers, Sequences, FiniteSets, TLC

VARIABLES data, file, last, assigned, adds, saved, proc, writer

vars == <<data, file, last, assigned, adds, saved, proc, writer>>

(***************************************************************************)
(* Bounds of the model.                                                    *)
(***************************************************************************)
\* the largest number of records the model lets a store hold
MaxUsers == 3

\* identifiers the callers pass to user() and remove_user()
Ids == 0..MaxUsers

\* the largest number of members of "u" in a document given to a load/save
\* cycle
MaxDocMembers == 2

(***************************************************************************)
(* Option<T>                                                               *)
(***************************************************************************)
None == [tag |-> "None"]

Some(x) == [tag |-> "Some", val |-> x]

(***************************************************************************)
(* User (user.rs) and the two users of the unit tests.                     *)
(***************************************************************************)
first_user == [first_name |-> "firstName", last_name |-> "firstSurname",
               email |-> "firstEmail", phone_number |-> "0123456789"]

second_user == [first_name |-> "secondName", last_name |-> "secondSurname",
                email |-> "secondEmail", phone_number |-> "9786543210"]

Users == {first_user, second_user}

(***************************************************************************)
(* Data (data.rs): a HashMap<usize, User> and the cached next_id.          *)
(***************************************************************************)
EmptyMap == [k \in {} |-> first_user]

\* HashMap::insert: the value under `id` is replaced when the key exists
insert(users, id, user) ==
    [k \in (DOMAIN users) \cup {id} |-> IF k = id THEN user ELSE users[k]]

\* HashMap::remove: the map without the key
remove(users, id) == [k \in (DOMAIN users) \ {id} |-> users[k]]

\* HashMap::contains_key
contains_key(users, id) == id \in DOMAIN users

\* Data::default() / Data::new()
DataDefault == [next_id |-> 0, users |-> EmptyMap]

\* the while loop of calculate_next_id, entered with the counter at n
RECURSIVE scan(_, _)
scan(users, n) == IF contains_key(users, n) THEN scan(users, n + 1) ELSE n

\* the number of contains_key calls the while loop makes when it is entered
\* with the counter at n: one for each present key it steps over and one
\* for the absent key that ends it
RECURSIVE probes(_, _)
probes(users, n) ==
    IF contains_key(users, n) THEN 1 + probes(users, n + 1) ELSE 1

\* a scan that starts at 1 instead of 0
calculate_next_id_from_one(users) == scan(users, 1)

\* a counter that follows the number of records instead of the occupancy
calculate_next_id_count(users) == Cardinality(DOMAIN users)

\* Data::calculate_next_id: the value it stores in next_id
calculate_next_id(users) == scan(users, 0)

\* add_user that returns the recomputed next_id instead of the assigned id
add_user_returns_next(d, user) ==
    LET id == d.next_id
        users1 == insert(d.users, id, user)
    IN  [data |-> [next_id |-> calculate_next_id(users1), users |-> users1],
         ret |-> calculate_next_id(users1)]

\* add_user without the calculate_next_id call: next_id stays on the id
\* it has just assigned
add_user_stale_next_id(d, user) ==
    LET id == d.next_id
        users1 == insert(d.users, id, user)
    IN  [data |-> [next_id |-> id, users |-> users1], ret |-> id]

\* Data::add_user
add_user(d, user) ==
    LET id == d.next_id
        users1 == insert(d.users, id, user)
    IN  [data |-> [next_id |-> calculate_next_id(users1), users |-> users1],
         ret |-> id]

\* a lookup whose predicate compares against the wrong key
user_off_by_one(d, id) ==
    IF \E k \in DOMAIN d.users : k = id + 1
      THEN Some(d.users[id + 1])
      ELSE None

\* Data::user
user(d, id) ==
    IF \E user_id \in DOMAIN d.users : user_id = id
      THEN Some(d.users[CHOOSE user_id \in DOMAIN d.users : user_id = id])
      ELSE None

\* remove_user that makes the requested id the next one without a scan
remove_user_sets_id(d, id) ==
    LET u == IF contains_key(d.users, id) THEN Some(d.users[id]) ELSE None
        users1 == remove(d.users, id)
    IN  [data |-> [next_id |-> id, users |-> users1], ret |-> u]

\* remove_user that leaves the cached next_id as it was
remove_user_no_recompute(d, id) ==
    LET u == IF contains_key(d.users, id) THEN Some(d.users[id]) ELSE None
        users1 == remove(d.users, id)
    IN  [data |-> [next_id |-> d.next_id, users |-> users1], ret |-> u]

\* Data::remove_user
remove_user(d, id) ==
    LET u == IF contains_key(d.users, id) THEN Some(d.users[id]) ELSE None
        users1 == remove(d.users, id)
    IN  [data |-> [next_id |-> calculate_next_id(users1), users |-> users1],
         ret |-> u]

\* reset that clears the map and keeps the cached next_id
reset_keeps_next_id(d) ==
    IF d.users = EmptyMap
      THEN [data |-> d, ret |-> FALSE]
      ELSE [data |-> [next_id |-> d.next_id, users |-> EmptyMap], ret |-> TRUE]

\* Data::reset
reset(d) ==
    IF d.users = EmptyMap
      THEN [data |-> d, ret |-> FALSE]
      ELSE [data |-> [next_id |-> calculate_next_id(EmptyMap),
                      users |-> EmptyMap],
            ret |-> TRUE]

(***************************************************************************)
(* Result<T, E> and io::Error (identified by its ErrorKind).               *)
(***************************************************************************)
Ok(x) == [ok |-> TRUE, val |-> x]

Err(e) == [ok |-> FALSE, err |-> e]

(***************************************************************************)
(* The persisted form.  The contents of a file are: zero bytes ("empty"),  *)
(* only white space ("blank"), bytes that are not JSON ("invalid"), or a   *)
(* JSON object ("object") with an optional member "i", an optional member  *)
(* "u" and, in "u", the members in the order they stand in the text.  A    *)
(* member of "u" has its key as the characters between the quotes and its  *)
(* value as the object of the tags n, s, e, p that are present.            *)
(***************************************************************************)
Digits == <<"0", "1", "2", "3", "4", "5", "6", "7", "8", "9">>

\* the decimal form of a usize, as itoa writes it for a map key
RECURSIVE ToDecimal(_)
ToDecimal(n) ==
    IF n < 10 THEN <<Digits[n + 1]>>
              ELSE ToDecimal(n \div 10) \o <<Digits[(n % 10) + 1]>>

IsDigit(c) == \E j \in 1..10 : Digits[j] = c

DigitValue(c) == (CHOOSE j \in 1..10 : Digits[j] = c) - 1

\* a JSON number that is a usize: digits only, no leading zero, no sign
IsDecimal(s) ==
    /\ Len(s) >= 1
    /\ \A j \in 1..Len(s) : IsDigit(s[j])
    /\ (Len(s) > 1 => s[1] # "0")

RECURSIVE FromDecimal(_)
FromDecimal(s) ==
    IF Len(s) = 0 THEN 0
    ELSE 10 * FromDecimal(SubSeq(s, 1, Len(s) - 1)) + DigitValue(s[Len(s)])

UserTags == {"n", "s", "e", "p"}

\* a serialization of User that writes the two names under each other's tag
SerUserSwapped(u) ==
    [n |-> u.last_name, s |-> u.first_name, e |-> u.email, p |-> u.phone_number]

\* Serialize for User: the serde renames of user.rs
SerUser(u) ==
    [n |-> u.first_name, s |-> u.last_name, e |-> u.email, p |-> u.phone_number]

\* Deserialize for User: every tag must be present
DeUserOk(v) == UserTags \subseteq DOMAIN v

\* a deserialization that reads the email and the phone number from each
\* other's tag
DeUserSwapped(v) ==
    [first_name |-> v["n"], last_name |-> v["s"],
     email |-> v["p"], phone_number |-> v["e"]]

DeUser(v) ==
    [first_name |-> v["n"], last_name |-> v["s"],
     email |-> v["e"], phone_number |-> v["p"]]

EmptyContents == [syntax |-> "empty"]

\* the orders in which a HashMap may be iterated
Orders(S) ==
    {o \in [1..Cardinality(S) -> S] :
        \A a, b \in 1..Cardinality(S) : a # b => o[a] # o[b]}

\* a serializer that skips next_id: "i" is written as the default, 0
to_string_skips_next_id(d, order) ==
    [syntax |-> "object", has_i |-> TRUE, i |-> 0, has_u |-> TRUE,
     u |-> [j \in 1..Len(order) |->
              [k |-> ToDecimal(order[j]), v |-> SerUser(d.users[order[j]])]]]

\* serde_json::to_string(&data), the map iterated in the order `order`
to_string(d, order) ==
    [syntax |-> "object", has_i |-> TRUE, i |-> d.next_id, has_u |-> TRUE,
     u |-> [j \in 1..Len(order) |->
              [k |-> ToDecimal(order[j]), v |-> SerUser(d.users[order[j]])]]]

\* Deserialize for HashMap<usize, User>: a later member replaces an earlier
\* one with the same key
RECURSIVE collect(_)
collect(u) ==
    IF Len(u) = 0 THEN EmptyMap
    ELSE insert(collect(SubSeq(u, 1, Len(u) - 1)),
                FromDecimal(u[Len(u)].k), DeUser(u[Len(u)].v))

\* serde_json::from_str::<Data>
from_str(c) ==
    IF c.syntax = "empty" \/ c.syntax = "blank" THEN Err("Eof")
    ELSE IF c.syntax = "invalid" THEN Err("Syntax")
    ELSE IF ~c.has_i \/ ~c.has_u THEN Err("Data")
    ELSE IF c.i < 0 THEN Err("Data")
    ELSE IF \E j \in 1..Len(c.u) : ~IsDecimal(c.u[j].k) THEN Err("Syntax")
    ELSE IF \E j \in 1..Len(c.u) : ~DeUserOk(c.u[j].v) THEN Err("Data")
    ELSE Ok([next_id |-> c.i, users |-> collect(c.u)])

\* From<serde_json::Error> for io::Error
json_to_io(category) ==
    IF category = "Eof" THEN "UnexpectedEof" ELSE "InvalidData"

\* the file of a path that does not exist
Absent == [exists |-> FALSE, contents |-> EmptyContents]

\* read_data that parses whatever it has read, the empty string included
read_data_no_empty_check(f, io_ok) ==
    IF f.exists /\ ~io_ok THEN Err("PermissionDenied")
    ELSE LET contents == IF f.exists THEN f.contents ELSE EmptyContents
             parsed == from_str(contents)
         IN  IF parsed.ok THEN parsed ELSE Err(json_to_io(parsed.err))

\* read_data that falls back to the default store when parsing fails
read_data_or_default(f, io_ok) ==
    IF f.exists /\ ~io_ok THEN Err("PermissionDenied")
    ELSE LET contents == IF f.exists THEN f.contents ELSE EmptyContents
             parsed == from_str(contents)
         IN  IF contents.syntax = "empty" THEN Ok(DataDefault)
             ELSE IF parsed.ok THEN parsed ELSE Ok(DataDefault)

\* read_data: io_ok tells whether fs::read_to_string succeeds
read_data(f, io_ok) ==
    IF f.exists /\ ~io_ok THEN Err("PermissionDenied")
    ELSE LET contents == IF f.exists THEN f.contents ELSE EmptyContents
             parsed == from_str(contents)
         IN  IF contents.syntax = "empty" THEN Ok(DataDefault)
             ELSE IF parsed.ok THEN parsed ELSE Err(json_to_io(parsed.err))

\* a save_data that opens the file for appending: a second document after
\* the first is not one JSON document
save_data_append(f, d, order, io_ok, opened) ==
    IF io_ok THEN
        [file |-> [exists |-> TRUE,
                   contents |-> IF f.exists /\ f.contents # EmptyContents
                                  THEN [syntax |-> "invalid"]
                                  ELSE to_string(d, order)],
         ret |-> Ok("unit")]
    ELSE IF opened THEN [file |-> [exists |-> TRUE, contents |-> EmptyContents],
                         ret |-> Err("Other")]
    ELSE [file |-> f, ret |-> Err("PermissionDenied")]

\* save_data: fs::write creates or truncates the file and writes the text;
\* when it fails the file is as it was (not opened) or truncated (not written)
save_data(f, d, order, io_ok, opened) ==
    IF io_ok THEN [file |-> [exists |-> TRUE, contents |-> to_string(d, order)],
                   ret |-> Ok("unit")]
    ELSE IF opened THEN [file |-> [exists |-> TRUE, contents |-> EmptyContents],
                         ret |-> Err("Other")]
    ELSE [file |-> f, ret |-> Err("PermissionDenied")]

(***************************************************************************)
(* The commands (src/command.rs, src/command/write.rs).  A command is run  *)
(* by a process in steps: the load of the file, the call on the Data, the  *)
(* save.  reset is the single step fs::remove_file.                        *)
(***************************************************************************)
Procs == {1, 2}

\* io::Error as add, reset and show return it
io_error(kind) == [class |-> "io::Error", kind |-> kind]

\* Error::IoError wrapping a not-found error: the wrong variant
error_from_io_not_found(kind) == [class |-> "UserNotFound", kind |-> kind]

\* Error::IoError(err): map_err(Error::IoError) and From<io::Error> for Error
error_from_io(kind) == [class |-> "IoError", kind |-> kind]

\* Error::UserNotFound(id)
user_not_found(id) == [class |-> "UserNotFound", id |-> id]

\* the error type of each command: Error for get and remove, io::Error else
command_error(cmd, kind) ==
    IF cmd \in {"get", "remove"} THEN error_from_io(kind) ELSE io_error(kind)

\* a process that runs no command
IdleProc ==
    [pc |-> "idle", cmd |-> "none", id |-> 0, user |-> first_user,
     before |-> Absent, by_cmd |-> FALSE, loaded |-> DataDefault,
     data |-> DataDefault, ret |-> None, result |-> None,
     steps |-> <<>>, cause |-> "none", out |-> <<>>,
     fault |-> FALSE, load_err |-> None]

\* a load whose failure is replaced by the default store
load_step_or_default(cmd, r) ==
    IF r.ok THEN [pc |-> "loaded", data |-> r.val, result |-> None]
    ELSE [pc |-> "loaded", data |-> DataDefault, result |-> None]

\* `read_data(&path)?` and `read_data(&path).map_err(Error::IoError)?`:
\* the command goes on with the Data or returns the error
load_step(cmd, r) ==
    IF r.ok THEN [pc |-> "loaded", data |-> r.val, result |-> None]
    ELSE [pc |-> "done", data |-> DataDefault,
          result |-> Err(command_error(cmd, r.err))]

\* a remove command that returns not-found before it saves
after_op_remove_found_only(cmd, ret) ==
    IF cmd = "add" \/ (cmd = "remove" /\ ret # None) THEN "operated" ELSE "done"

\* a get command that writes the Data back
after_op_get_saves(cmd, ret) ==
    IF cmd \in {"add", "remove", "get"} THEN "operated" ELSE "done"

\* what follows the call on the Data: add and remove call save_data, get and
\* show return
after_op(cmd, ret) ==
    IF cmd \in {"add", "remove"} THEN "operated" ELSE "done"

\* Data::users: the entries in the order the HashMap is iterated
users_iter(d, order) ==
    [j \in 1..Len(order) |-> [id |-> order[j], user |-> d.users[order[j]]]]

\* the place of an entry in a sequence sorted by id
RECURSIVE sorted_insert(_, _)
sorted_insert(sorted, e) ==
    IF Len(sorted) = 0 THEN <<e>>
    ELSE IF sorted[Len(sorted)].id <= e.id THEN Append(sorted, e)
    ELSE Append(sorted_insert(SubSeq(sorted, 1, Len(sorted) - 1), e),
                sorted[Len(sorted)])

\* a show_data that writes the entries in the order it got them
sort_by_key_missing(entries) == entries

\* users.sort_by_key(|(id, _)| *id): a stable sort
RECURSIVE sort_by_key(_)
sort_by_key(entries) ==
    IF Len(entries) = 0 THEN <<>>
    ELSE sorted_insert(sort_by_key(SubSeq(entries, 1, Len(entries) - 1)),
                       entries[Len(entries)])

\* show_data: a blank line before every user but the first, then write_user;
\* `written` of the users are written before the writer fails
show_data(d, order, written) ==
    LET sorted == sort_by_key(users_iter(d, order))
    IN  [out |-> [j \in 1..written |->
                     [blank_before |-> j > 1, id |-> sorted[j].id,
                      user |-> sorted[j].user]],
         ret |-> IF written = Len(sorted) THEN Ok("unit")
                 ELSE Err(io_error("BrokenPipe"))]

\* a reset that reports success and leaves the file in place
remove_file_keeps_file(f, io_ok) ==
    IF ~f.exists THEN [file |-> f, ret |-> Err("NotFound")]
    ELSE IF ~io_ok THEN [file |-> f, ret |-> Err("PermissionDenied")]
    ELSE [file |-> f, ret |-> Ok("unit")]

\* fs::remove_file(path), the whole of command::reset
remove_file(f, io_ok) ==
    IF ~f.exists THEN [file |-> f, ret |-> Err("NotFound")]
    ELSE IF ~io_ok THEN [file |-> f, ret |-> Err("PermissionDenied")]
    ELSE [file |-> Absent, ret |-> Ok("unit")]

(***************************************************************************)
(* The files a run may start from.                                         *)
(***************************************************************************)
Entry(key, u) == [k |-> key, v |-> SerUser(u)]

Object(i, u) == [syntax |-> "object", has_i |-> TRUE, i |-> i,
                 has_u |-> TRUE, u |-> u]

InitialContents ==
    { EmptyContents,
      [syntax |-> "blank"],
      [syntax |-> "invalid"],
      [syntax |-> "object", has_i |-> FALSE, i |-> 0, has_u |-> TRUE, u |-> <<>>],
      [syntax |-> "object", has_i |-> TRUE, i |-> 0, has_u |-> FALSE, u |-> <<>>],
      Object(-1, <<>>),
      Object(2, <<Entry(<<"0">>, first_user), Entry(<<"0", "1">>, second_user)>>),
      Object(1, <<Entry(<<"x">>, first_user)>>),
      Object(1, <<[k |-> <<"0">>, v |-> [n |-> "firstName", s |-> "firstSurname"]]>>),
      Object(2, <<Entry(<<"0">>, first_user), Entry(<<"1">>, second_user)>>),
      Object(0, <<Entry(<<"0">>, first_user)>>) }

InitialFiles ==
    {Absent} \cup {[exists |-> TRUE, contents |-> c] : c \in InitialContents}

(***************************************************************************)
(* The state.  data: the Data value the caller holds; file: the path that  *)
(* read_data and save_data are given; last: the last call, its arguments,  *)
(* the Data before it and what it returned.  History: assigned[id] is the  *)
(* record of the latest add_user that returned id and was not removed or   *)
(* reset since; adds counts the add_user calls made since Data::new() as   *)
(* long as nothing else changed the store; saved is the Data that the last *)
(* successful save_data wrote to the file.                                 *)
(***************************************************************************)
NoneAssigned == [id \in 0..(MaxUsers + 1) |-> None]

Init ==
    /\ data = DataDefault
    /\ file = Absent
    /\ last = [op |-> "new"]
    /\ assigned = NoneAssigned
    /\ adds = [only |-> TRUE, n |-> 0]
    /\ saved = None
    /\ proc = [p \in Procs |-> IdleProc]
    /\ writer = 0

\* Data::new()
New ==
    /\ data' = DataDefault
    /\ last' = [op |-> "new"]
    /\ assigned' = NoneAssigned
    /\ adds' = [only |-> TRUE, n |-> 0]
    /\ UNCHANGED <<file, saved, proc, writer>>

\* data.add_user(user)
AddUser(u) ==
    /\ Cardinality(DOMAIN data.users) < MaxUsers
    /\ LET r == add_user(data, u)
       IN  /\ data' = r.data
           /\ last' = [op |-> "add_user", user |-> u, prev |-> data, ret |-> r.ret]
           /\ assigned' = [id \in DOMAIN assigned |->
                             IF id = r.ret THEN Some(u) ELSE assigned[id]]
    /\ adds' = IF adds.only THEN [adds EXCEPT !.n = @ + 1] ELSE adds
    /\ UNCHANGED <<file, saved, proc, writer>>

\* data.user(id)
GetUser(id) ==
    /\ last' = [op |-> "user", id |-> id, prev |-> data, ret |-> user(data, id)]
    /\ UNCHANGED <<data, file, assigned, adds, saved, proc, writer>>

\* data.remove_user(id)
RemoveUser(id) ==
    /\ LET r == remove_user(data, id)
       IN  /\ data' = r.data
           /\ last' = [op |-> "remove_user", id |-> id, prev |-> data, ret |-> r.ret]
    /\ assigned' = [assigned EXCEPT ![id] = None]
    /\ adds' = [only |-> FALSE, n |-> 0]
    /\ UNCHANGED <<file, saved, proc, writer>>

\* data.reset()
Reset ==
    /\ LET r == reset(data)
       IN  /\ data' = r.data
           /\ last' = [op |-> "reset", prev |-> data, ret |-> r.ret]
    /\ assigned' = NoneAssigned
    /\ adds' = [only |-> FALSE, n |-> 0]
    /\ UNCHANGED <<file, saved, proc, writer>>

Next ==
    \/ New
    \/ \E u \in Users : AddUser(u)
    \/ \E id \in Ids : GetUser(id)
    \/ \E id \in Ids : RemoveUser(id)
    \/ Reset

\* the store on its own: Data::new() and any sequence of its methods
Spec == Init /\ [][Next]_vars

(***************************************************************************)
(* The store and its file: the caller changes the Data it holds with       *)
(* add_user, remove_user and reset, saves it to the path and reads the     *)
(* path back.  The path starts as any of InitialFiles.                     *)
(***************************************************************************)
InitIO ==
    /\ data = DataDefault
    /\ file \in InitialFiles
    /\ last = [op |-> "new"]
    /\ assigned = NoneAssigned
    /\ adds = [only |-> TRUE, n |-> 0]
    /\ saved = None
    /\ proc = [p \in Procs |-> IdleProc]
    /\ writer = 0

\* one call of add_user, remove_user or reset on the Data the caller holds
Operate ==
    /\ \/ /\ Cardinality(DOMAIN data.users) < MaxUsers
          /\ \E u \in Users : data' = add_user(data, u).data
       \/ \E id \in Ids : data' = remove_user(data, id).data
       \/ data' = reset(data).data
    /\ last' = [op |-> "operate"]
    /\ UNCHANGED <<file, assigned, adds, saved, proc, writer>>

\* save_data(path, &data): the write succeeds, or fails before or after the
\* file was opened
SaveData ==
    /\ \/ \E order \in Orders(DOMAIN data.users) :
            LET r == save_data(file, data, order, TRUE, TRUE)
            IN  /\ file' = r.file
                /\ last' = [op |-> "save_data", ret |-> r.ret]
                /\ saved' = Some(data)
       \/ \E opened \in BOOLEAN :
            LET r == save_data(file, data, <<>>, FALSE, opened)
            IN  /\ file' = r.file
                /\ last' = [op |-> "save_data", ret |-> r.ret]
                /\ saved' = IF opened THEN None ELSE saved
    /\ UNCHANGED <<data, assigned, adds, proc, writer>>

\* read_data(path)
ReadData ==
    /\ \E io_ok \in BOOLEAN :
          last' = [op |-> "read_data", file |-> file, io_ok |-> io_ok,
                   ret |-> read_data(file, io_ok)]
    /\ UNCHANGED <<data, file, assigned, adds, saved, proc, writer>>

NextIO ==
    \/ Operate
    \/ SaveData
    \/ ReadData

SpecIO == InitIO /\ [][NextIO]_vars

(***************************************************************************)
(* The commands, one at a time (SpecCmd) and two at once on the same path  *)
(* (SpecRace).  proc[p] is what process p holds: the command and its       *)
(* arguments, the Data, the steps it has made on the file and the Data,    *)
(* the result it returned.  History: before is the file as the command     *)
(* found it, by_cmd tells whether a command's save had written that file,  *)
(* cause tells what made the command fail, fault whether the file system   *)
(* or the writer refused a step, load_err the error of the load; writer is *)
(* the process whose save wrote the file that is there now (0: none).      *)
(***************************************************************************)
\* what the command returns once its steps went through: add, remove, get
command_result(cmd, ret, id) ==
    IF cmd = "add" THEN Ok("unit")
    ELSE IF ret = None THEN Err(user_not_found(id))
    ELSE Ok(ret.val)

InitCmd ==
    /\ data = DataDefault
    /\ file \in InitialFiles
    /\ last = [op |-> "new"]
    /\ assigned = NoneAssigned
    /\ adds = [only |-> TRUE, n |-> 0]
    /\ saved = None
    /\ proc = [p \in Procs |-> IdleProc]
    /\ writer = 0

\* the first step of add, get, remove and show: read_data(&path)
Load(p, cmd, id, u) ==
    /\ proc[p].pc = "idle"
    /\ \E io_ok \in BOOLEAN :
          LET r == read_data(file, io_ok)
              st == load_step(cmd, r)
          IN  /\ (cmd = "add" /\ st.pc = "loaded") =>
                     Cardinality(DOMAIN st.data.users) < MaxUsers
              /\ proc' = [proc EXCEPT ![p] =
                    [IdleProc EXCEPT
                       !.pc = st.pc, !.cmd = cmd, !.id = id, !.user = u,
                       !.before = file, !.by_cmd = (writer # 0),
                       !.loaded = st.data, !.data = st.data,
                       !.result = st.result, !.steps = <<"load">>,
                       !.fault = (file.exists /\ ~io_ok),
                       !.load_err = IF r.ok THEN None ELSE Some(r.err),
                       !.cause = IF r.ok THEN "none"
                                 ELSE IF file.exists /\ ~io_ok THEN "io"
                                 ELSE "deser"]]
    /\ UNCHANGED <<data, file, last, assigned, adds, saved, writer>>

\* the call on the loaded Data: add_user, user, remove_user or show_data
Op(p) ==
    /\ proc[p].pc = "loaded"
    /\ LET me == proc[p]
       IN  \/ /\ me.cmd = "add"
              /\ proc' = [proc EXCEPT ![p] =
                    [me EXCEPT !.data = add_user(me.data, me.user).data,
                               !.pc = after_op("add", None),
                               !.steps = Append(@, "op")]]
           \/ /\ me.cmd = "get"
              /\ LET ret == user(me.data, me.id)
                     res == command_result("get", ret, me.id)
                 IN  proc' = [proc EXCEPT ![p] =
                        [me EXCEPT !.ret = ret,
                                   !.pc = after_op("get", ret),
                                   !.result = res,
                                   !.cause = IF res.ok THEN "none" ELSE "not_found",
                                   !.steps = Append(@, "op")]]
           \/ /\ me.cmd = "remove"
              /\ LET r == remove_user(me.data, me.id)
                 IN  proc' = [proc EXCEPT ![p] =
                        [me EXCEPT !.data = r.data, !.ret = r.ret,
                                   !.pc = after_op("remove", r.ret),
                                   !.result = IF after_op("remove", r.ret) = "done"
                                                THEN command_result("remove", r.ret, me.id)
                                                ELSE None,
                                   !.cause = IF after_op("remove", r.ret) = "done"
                                               THEN "not_found" ELSE "none",
                                   !.steps = Append(@, "op")]]
           \/ /\ me.cmd = "show"
              /\ \E order \in Orders(DOMAIN me.data.users),
                    written \in 0..Cardinality(DOMAIN me.data.users) :
                    LET sd == show_data(me.data, order, written)
                    IN  proc' = [proc EXCEPT ![p] =
                           [me EXCEPT !.out = sd.out, !.result = sd.ret,
                                      !.pc = after_op("show", None),
                                      !.cause = IF sd.ret.ok THEN "none" ELSE "io",
                                      !.fault = ~sd.ret.ok,
                                      !.steps = Append(@, "op")]]
    /\ UNCHANGED <<data, file, last, assigned, adds, saved, writer>>

\* the last step of add and remove: save_data(&path, &data), then the result
Save(p) ==
    /\ proc[p].pc = "operated"
    /\ LET me == proc[p]
           done(r) ==
               [me EXCEPT
                  !.pc = "done", !.steps = Append(@, "save"),
                  !.fault = ~r.ret.ok,
                  !.result = IF r.ret.ok THEN command_result(me.cmd, me.ret, me.id)
                             ELSE Err(command_error(me.cmd, r.ret.err)),
                  !.cause = IF ~r.ret.ok THEN "io"
                            ELSE IF command_result(me.cmd, me.ret, me.id).ok
                              THEN "none" ELSE "not_found"]
       IN  \/ \E order \in Orders(DOMAIN me.data.users) :
                LET r == save_data(file, me.data, order, TRUE, TRUE)
                IN  /\ file' = r.file
                    /\ writer' = p
                    /\ proc' = [proc EXCEPT ![p] = done(r)]
           \/ \E opened \in BOOLEAN :
                LET r == save_data(file, me.data, <<>>, FALSE, opened)
                IN  /\ file' = r.file
                    /\ writer' = IF r.file = file THEN writer ELSE 0
                    /\ proc' = [proc EXCEPT ![p] = done(r)]
    /\ UNCHANGED <<data, last, assigned, adds, saved>>

\* the reset command: fs::remove_file(path)
ResetCmd(p) ==
    /\ proc[p].pc = "idle"
    /\ \E io_ok \in BOOLEAN :
          LET r == remove_file(file, io_ok)
          IN  /\ file' = r.file
              /\ writer' = IF r.file = file THEN writer ELSE 0
              /\ proc' = [proc EXCEPT ![p] =
                    [IdleProc EXCEPT
                       !.pc = "done", !.cmd = "reset", !.before = file,
                       !.by_cmd = (writer # 0), !.steps = <<"remove_file">>,
                       !.fault = (file.exists /\ ~io_ok),
                       !.result = IF r.ret.ok THEN Ok("unit")
                                  ELSE Err(command_error("reset", r.ret.err)),
                       !.cause = IF r.ret.ok THEN "none" ELSE "io"]]
    /\ UNCHANGED <<data, last, assigned, adds, saved>>

\* the process ends; the next command is a new process
Exit(p) ==
    /\ proc[p].pc = "done"
    /\ proc' = [proc EXCEPT ![p] = IdleProc]
    /\ UNCHANGED <<data, file, last, assigned, adds, saved, writer>>

NextCmd ==
    \/ \E u \in Users : Load(1, "add", 0, u)
    \/ \E id \in Ids : Load(1, "get", id, first_user)
    \/ \E id \in Ids : Load(1, "remove", id, first_user)
    \/ Load(1, "show", 0, first_user)
    \/ Op(1)
    \/ Save(1)
    \/ ResetCmd(1)
    \/ Exit(1)

\* one command after the other on one path
SpecCmd == InitCmd /\ [][NextCmd]_vars

NextRace ==
    \E p \in Procs :
        \/ \E u \in Users : Load(p, "add", 0, u)
        \/ \E id \in Ids : Load(p, "remove", id, first_user)
        \/ Op(p)
        \/ Save(p)

\* two invocations of add or remove on one path, their steps interleaved
SpecRace == InitCmd /\ [][NextRace]_vars

(***************************************************************************)
(* Load/save cycles (SpecCycle): a well-shaped document x is read with     *)
(* read_data, the Store is written with save_data, and once more.  last    *)
(* keeps x and the documents written so far.                               *)
(***************************************************************************)
\* the well-shaped documents: any "i", any members (a key may stand twice)
ValidDocuments ==
    LET entries == {Entry(ToDecimal(id), u) : id \in Ids, u \in Users}
        members == UNION {[1..n -> entries] : n \in 0..MaxDocMembers}
    IN  {Object(i, u) : i \in Ids, u \in members}

InitCycle ==
    /\ data = DataDefault
    /\ file \in {[exists |-> TRUE, contents |-> c] : c \in ValidDocuments}
    /\ last = [op |-> "cycle", pc |-> "load", x |-> file, docs |-> <<>>]
    /\ assigned = NoneAssigned
    /\ adds = [only |-> TRUE, n |-> 0]
    /\ saved = None
    /\ proc = [p \in Procs |-> IdleProc]
    /\ writer = 0

\* load: read_data(path)
CycleLoad ==
    /\ last.pc = "load"
    /\ Len(last.docs) < 2
    /\ LET r == read_data(file, TRUE)
       IN  /\ r.ok
           /\ data' = r.val
    /\ last' = [last EXCEPT !.pc = "save"]
    /\ UNCHANGED <<file, assigned, adds, saved, proc, writer>>

\* save: save_data(path, &data)
CycleSave ==
    /\ last.pc = "save"
    /\ \E order \in Orders(DOMAIN data.users) :
          LET r == save_data(file, data, order, TRUE, TRUE)
          IN  /\ file' = r.file
              /\ last' = [last EXCEPT !.pc = "load",
                                      !.docs = Append(@, r.file.contents)]
    /\ UNCHANGED <<data, assigned, adds, saved, proc, writer>>

NextCycle ==
    \/ CycleLoad
    \/ CycleSave

SpecCycle == InitCycle /\ [][NextCycle]_vars

(***************************************************************************)
(* Commands against the in-memory store.  add and remove commands run one  *)
(* after the other on one path that does not exist at first; every read    *)
(* and write succeeds.  Each action is one whole command: read_data, the   *)
(* call on the loaded Data, save_data, the result.  data is a Data that    *)
(* starts as Data::new() and gets the same add_user and remove_user calls  *)
(* directly; last: the command, what the call on data returned (ret) and   *)
(* what the command returned (result).                                     *)
(***************************************************************************)
\* command::add(path, user), beside data.add_user(user)
AddCommand(u) ==
    /\ Cardinality(DOMAIN data.users) < MaxUsers
    /\ LET r == read_data(file, TRUE)
           st == load_step("add", r)
           mem == add_user(data, u)
       IN  /\ Cardinality(DOMAIN st.data.users) < MaxUsers
           /\ data' = mem.data
           /\ IF st.pc = "done"
                THEN /\ file' = file
                     /\ last' = [op |-> "add", user |-> u, ret |-> mem.ret,
                                  result |-> st.result]
                ELSE LET d1 == add_user(st.data, u).data
                     IN  \E order \in Orders(DOMAIN d1.users) :
                            LET w == save_data(file, d1, order, TRUE, TRUE)
                            IN  /\ file' = w.file
                                /\ last' =
                                      [op |-> "add", user |-> u, ret |-> mem.ret,
                                       result |->
                                         IF w.ret.ok
                                           THEN command_result("add", None, 0)
                                           ELSE Err(command_error("add", w.ret.err))]
    /\ UNCHANGED <<assigned, adds, saved, proc, writer>>

\* command::remove(path, id), beside data.remove_user(id)
RemoveCommand(id) ==
    /\ LET r == read_data(file, TRUE)
           st == load_step("remove", r)
           mem == remove_user(data, id)
       IN  /\ data' = mem.data
           /\ IF st.pc = "done"
                THEN /\ file' = file
                     /\ last' = [op |-> "remove", id |-> id, ret |-> mem.ret,
                                  result |-> st.result]
                ELSE LET op == remove_user(st.data, id)
                     IN  \E order \in Orders(DOMAIN op.data.users) :
                            LET w == save_data(file, op.data, order, TRUE, TRUE)
                            IN  /\ file' = w.file
                                /\ last' =
                                      [op |-> "remove", id |-> id, ret |-> mem.ret,
                                       result |->
                                         IF w.ret.ok
                                           THEN command_result("remove", op.ret, id)
                                           ELSE Err(command_error("remove", w.ret.err))]
    /\ UNCHANGED <<assigned, adds, saved, proc, writer>>

NextRefine ==
    \/ \E u \in Users : AddCommand(u)
    \/ \E id \in Ids : RemoveCommand(id)

\* the commands on the file and the same calls on a Data in memory
SpecRefine == Init /\ [][NextRefine]_vars

(***************************************************************************)
(* Properties of the store (specification Spec).                           *)
(***************************************************************************)
\* the smallest non-negative integer that is not a key of the map
MinFree(users) ==
    CHOOSE n \in 0..Cardinality(DOMAIN users) :
        /\ n \notin DOMAIN users
        /\ \A m \in 0..(n - 1) : m \in DOMAIN users

Min(a, b) == IF a <= b THEN a ELSE b

\* C1 (Invariant A): in every state reachable from Data::new() by add_user,
\* remove_user and reset, next_id is the smallest non-negative integer that
\* is not a key of users.
InvariantA == data.next_id = MinFree(data.users)

\* a store with a gap below its largest key
InvariantA_Witness ==
    /\ DOMAIN data.users = {0, 2}
    /\ data.next_id = 1
    /\ last.op = "remove_user"

\* C2 (lowest free id reuse): add_user returns the smallest non-negative
\* integer that was not a key of the map; with keys 0 and 2 left after the
\* removal of 1, it returns 1 and not 3.
LowestFreeIdReuse ==
    last.op = "add_user" =>
        /\ last.ret = MinFree(last.prev.users)
        /\ last.ret \notin DOMAIN last.prev.users
        /\ (DOMAIN last.prev.users = {0, 2} => last.ret = 1)

LowestFreeIdReuse_Witness ==
    /\ last.op = "add_user"
    /\ DOMAIN last.prev.users = {0, 2}
    /\ last.ret = 1
    /\ DOMAIN data.users = {0, 1, 2}

\* C3: from the empty store, with nothing but add_user calls, the k-th call
\* (counted from 0) returns k.
KthAddReturnsK ==
    (last.op = "add_user" /\ adds.only) => last.ret = adds.n - 1

KthAddReturnsK_Witness ==
    /\ last.op = "add_user"
    /\ adds.only
    /\ adds.n = MaxUsers
    /\ last.ret = MaxUsers - 1

\* C4: remove_user(id) with id present returns the record stored under id,
\* deletes that entry and no other, and makes next_id the smaller of the
\* previous next_id and id.
RemovePresent ==
    (last.op = "remove_user" /\ last.id \in DOMAIN last.prev.users) =>
        /\ last.ret = Some(last.prev.users[last.id])
        /\ DOMAIN data.users = (DOMAIN last.prev.users) \ {last.id}
        /\ \A k \in DOMAIN data.users : data.users[k] = last.prev.users[k]
        /\ data.next_id = Min(last.prev.next_id, last.id)
        /\ (DOMAIN last.prev.users = {0, 1, 2} /\ last.id = 2 => data.next_id = 2)

\* ids 0, 1, 2 assigned and the largest one removed
RemovePresent_Witness ==
    /\ last.op = "remove_user"
    /\ DOMAIN last.prev.users = {0, 1, 2}
    /\ last.prev.next_id = 3
    /\ last.id = 2
    /\ data.next_id = 2

\* C5: remove_user(id) with id absent returns None and leaves the map and
\* next_id as they were.
RemoveAbsent ==
    (last.op = "remove_user" /\ last.id \notin DOMAIN last.prev.users) =>
        /\ last.ret = None
        /\ data.users = last.prev.users
        /\ data.next_id = last.prev.next_id

\* an id above the free one is asked for while the store holds records
RemoveAbsent_Witness ==
    /\ last.op = "remove_user"
    /\ last.id \notin DOMAIN last.prev.users
    /\ last.id > last.prev.next_id
    /\ last.prev.users # EmptyMap
    /\ last.ret = None

\* C6: reset on a non-empty store returns true and leaves the map empty and
\* next_id 0; on an empty store it returns false and changes nothing.
ResetContract ==
    last.op = "reset" =>
        IF last.prev.users # EmptyMap
          THEN last.ret = TRUE /\ data.users = EmptyMap /\ data.next_id = 0
          ELSE last.ret = FALSE /\ data = last.prev

ResetContract_Witness ==
    /\ last.op = "reset"
    /\ last.prev.users # EmptyMap
    /\ last.prev.next_id > 0
    /\ last.ret = TRUE
    /\ data = DataDefault

\* C7: user(id) returns the record given to the latest add_user call that
\* returned id, unless id was removed or the store reset since; it returns
\* None for every id that is not a key of the map.
UserLookup ==
    last.op = "user" =>
        /\ last.ret = assigned[last.id]
        /\ (last.id \notin DOMAIN data.users => last.ret = None)
        /\ (last.id \in DOMAIN data.users => last.ret = Some(data.users[last.id]))

\* a lookup of id 0 in a store of at least two records
UserLookup_Witness ==
    /\ last.op = "user"
    /\ last.ret = Some(second_user)
    /\ last.id = 0
    /\ data.next_id > 1

(***************************************************************************)
(* Properties of load and save (specification SpecIO).                     *)
(***************************************************************************)
\* the document shape of a Store: an object with a non-negative integer "i"
\* and a map "u" from the decimal form of an id to a record with its four tags
WellShaped(c) ==
    /\ c.syntax = "object"
    /\ c.has_i /\ c.i >= 0
    /\ c.has_u
    /\ \A j \in 1..Len(c.u) :
          /\ \E n \in 0..99 : c.u[j].k = ToDecimal(n)
          /\ DOMAIN c.u[j].v = UserTags

\* C8 (round trip): a Store saved with save_data and read back with
\* read_data from the same path comes back with the same map and the same
\* next_id (both calls succeeding).
RoundTrip ==
    (last.op = "read_data" /\ last.io_ok /\ saved # None) =>
        /\ last.ret.ok
        /\ last.ret.val.users = saved.val.users
        /\ last.ret.val.next_id = saved.val.next_id

\* a store with two records and a gap, saved and read back
RoundTrip_Witness ==
    /\ last.op = "read_data"
    /\ last.io_ok
    /\ saved # None
    /\ DOMAIN saved.val.users = {0, 2}
    /\ saved.val.users[0] # saved.val.users[2]
    /\ last.ret = Ok(saved.val)

\* C9: read_data on a path that does not exist, or on a file read as the
\* empty string, returns Ok with the empty Store.
ReadMissingOrEmpty ==
    (/\ last.op = "read_data"
     /\ \/ ~last.file.exists
        \/ last.io_ok /\ last.file.contents = EmptyContents) =>
        /\ last.ret.ok
        /\ last.ret.val.users = EmptyMap
        /\ last.ret.val.next_id = 0

\* a file that exists and holds zero bytes
ReadMissingOrEmpty_Witness ==
    /\ last.op = "read_data"
    /\ last.file.exists
    /\ last.file.contents = EmptyContents
    /\ last.ret = Ok(DataDefault)

\* C10: read_data on a file whose contents are not empty and not of the
\* Store document shape returns an error, never a Store.
ReadMalformedFails ==
    (/\ last.op = "read_data"
     /\ last.file.exists
     /\ last.file.contents # EmptyContents
     /\ ~WellShaped(last.file.contents)) =>
        ~last.ret.ok

\* a JSON object of the wrong shape was read and refused as invalid data
ReadMalformedFails_Witness ==
    /\ last.op = "read_data"
    /\ last.io_ok
    /\ last.file.contents.syntax = "object"
    /\ ~WellShaped(last.file.contents)
    /\ last.ret = Err("InvalidData")

(***************************************************************************)
(* Further properties of the store and of a loaded store.                  *)
(***************************************************************************)
\* C13: the Store that read_data returns for a well-shaped document has
\* next_id equal to the smallest non-negative integer absent from its map.
\* read_data takes "i" as written and never rescans, so a document whose "i"
\* is a key of "u" refutes it.
LoadedInvariantA ==
    (last.op = "read_data" /\ last.ret.ok) =>
        last.ret.val.next_id = MinFree(last.ret.val.users)

\* C14 as stated: the removal of a record below records that stay leaves
\* next_id as it was, unless the removed id was the previous next_id (which
\* a stored id never is).
RemoveLowKeepsNextId ==
    (/\ last.op = "remove_user"
     /\ last.id \in DOMAIN last.prev.users
     /\ \E k \in DOMAIN last.prev.users : k > last.id
     /\ last.id # last.prev.next_id) =>
        data.next_id = last.prev.next_id

\* C14 as amended: the removal of a record below records that stay changes
\* next_id exactly when the removed id is smaller than the previous next_id,
\* and next_id is then the removed id.
RemoveLowNextId ==
    (/\ last.op = "remove_user"
     /\ last.id \in DOMAIN last.prev.users
     /\ \E k \in DOMAIN last.prev.users : k > last.id) =>
        /\ (data.next_id # last.prev.next_id) <=> (last.id < last.prev.next_id)
        /\ (last.id < last.prev.next_id => data.next_id = last.id)

\* id 1 removed below id 2 while 0 was already free: next_id stays 0
RemoveLowNextId_Witness ==
    /\ last.op = "remove_user"
    /\ DOMAIN last.prev.users = {1, 2}
    /\ last.id = 1
    /\ last.prev.next_id = 0
    /\ data.next_id = 0

(***************************************************************************)
(* Properties of the commands (specifications SpecCmd and SpecRace).       *)
(***************************************************************************)
Count(seq, x) == Cardinality({j \in 1..Len(seq) : seq[j] = x})

Failed(p) == proc[p].pc = "done" /\ ~proc[p].result.ok

\* C11 (last writer wins): with two add or remove invocations interleaved
\* on one path, the file holds the Store of the invocation whose save ran
\* last: what that invocation loaded with its own operation applied, and
\* nothing of the other invocation.
LastWriterWins ==
    writer # 0 =>
        LET w == proc[writer]
            stored == read_data(file, TRUE)
        IN  /\ stored = Ok(w.data)
            /\ DOMAIN stored.val.users =
                 IF w.cmd = "add"
                   THEN (DOMAIN w.loaded.users) \cup {w.loaded.next_id}
                   ELSE (DOMAIN w.loaded.users) \ {w.id}
            /\ \A k \in DOMAIN stored.val.users :
                 stored.val.users[k] =
                   IF w.cmd = "add" /\ k = w.loaded.next_id THEN w.user
                   ELSE w.loaded.users[k]

\* both invocations added a user to the store they had loaded from the same
\* file and returned success; the file holds the second one's user only
LastWriterWins_Witness ==
    /\ proc[1].pc = "done" /\ proc[2].pc = "done"
    /\ proc[1].cmd = "add" /\ proc[2].cmd = "add"
    /\ proc[1].result.ok /\ proc[2].result.ok
    /\ proc[1].before = Absent /\ proc[2].before = Absent
    /\ proc[1].user # proc[2].user
    /\ writer = 2
    /\ read_data(file, TRUE).val.users = (0 :> proc[2].user)

\* C12 as stated: a deserialization failure is reported in a class of its
\* own, never in the class of the I/O failures.
FailureClassesDistinct ==
    \A p \in Procs :
        (Failed(p) /\ proc[p].cause = "deser") =>
            proc[p].result.err.class \notin {"IoError", "io::Error"}

\* C12 as amended: a failing command returns not-found (Error::UserNotFound)
\* or an I/O error (io::Error, wrapped in Error::IoError by get and remove);
\* a deserialization failure is returned in the I/O class, as an io::Error
\* of kind InvalidData or UnexpectedEof.
FailureClasses ==
    \A p \in Procs :
        Failed(p) =>
            LET e == proc[p].result.err
            IN  /\ e.class \in {"UserNotFound", "IoError", "io::Error"}
                /\ (e.class = "UserNotFound") <=> (proc[p].cause = "not_found")
                /\ (proc[p].cause \in {"io", "deser"} =>
                      e.class = IF proc[p].cmd \in {"get", "remove"}
                                  THEN "IoError" ELSE "io::Error")
                /\ (proc[p].cause = "deser" =>
                      e.kind \in {"InvalidData", "UnexpectedEof"})

\* get on a file of the wrong shape returns Error::IoError
FailureClasses_Witness ==
    /\ Failed(1)
    /\ proc[1].cmd = "get"
    /\ proc[1].cause = "deser"
    /\ proc[1].result.err = error_from_io("InvalidData")

\* C15: show writes every entry of the loaded Store once, in strictly
\* ascending id order, whatever the order the map is iterated in.
ShowSorted ==
    \A p \in Procs :
        (proc[p].pc = "done" /\ proc[p].cmd = "show" /\ proc[p].result.ok) =>
            LET out == proc[p].out
                stored == proc[p].loaded.users
            IN  /\ Len(out) = Cardinality(DOMAIN stored)
                /\ \A j, k \in 1..Len(out) : j < k => out[j].id < out[k].id
                /\ \A id \in DOMAIN stored :
                     \E j \in 1..Len(out) : out[j].id = id
                /\ \A j \in 1..Len(out) :
                     /\ out[j].id \in DOMAIN stored
                     /\ out[j].user = stored[out[j].id]
                     /\ out[j].blank_before = (j > 1)

ShowSorted_Witness ==
    /\ proc[1].pc = "done"
    /\ proc[1].cmd = "show"
    /\ proc[1].result.ok
    /\ Len(proc[1].out) >= 2
    /\ proc[1].out[1].id = 0

\* C16 as stated: the reset command on an empty registry (file absent, file
\* empty or file holding the empty Store) returns success, and after a
\* successful reset the path loads as the empty Store.
ResetEmptySucceeds ==
    \A p \in Procs :
        (/\ proc[p].pc = "done" /\ proc[p].cmd = "reset" /\ ~proc[p].fault
         /\ read_data(proc[p].before, TRUE) = Ok(DataDefault)) =>
            /\ proc[p].result.ok
            /\ read_data(file, TRUE) = Ok(DataDefault)

\* C16 as amended: the reset command on a file that exists returns success
\* and removes it (unless the file system refuses); on an absent file it
\* returns the NotFound error of fs::remove_file; after a successful reset
\* the path loads as the empty Store.
ResetCommand ==
    \A p \in Procs :
        (proc[p].pc = "done" /\ proc[p].cmd = "reset") =>
            /\ (~proc[p].fault /\ proc[p].before.exists) =>
                   proc[p].result = Ok("unit")
            /\ ~proc[p].before.exists =>
                   proc[p].result = Err(io_error("NotFound")) /\ file = Absent
            /\ proc[p].result.ok =>
                   \A io_ok \in BOOLEAN : read_data(file, io_ok) = Ok(DataDefault)

\* reset of a file that holds the empty Store
ResetCommand_Witness ==
    /\ proc[1].pc = "done"
    /\ proc[1].cmd = "reset"
    /\ proc[1].before.exists
    /\ proc[1].before.contents # EmptyContents
    /\ read_data(proc[1].before, TRUE) = Ok(DataDefault)
    /\ proc[1].result.ok
    /\ file = Absent

\* C17: a command loads at most once and saves at most once, a save comes
\* after the load and the call on the Data; add and remove have saved the
\* resulting Store when they return success; get and show never save and
\* leave the file as it was.
CommandSteps ==
    \A p \in Procs :
        LET me == proc[p]
            st == me.steps
        IN  /\ Count(st, "load") <= 1
            /\ Count(st, "save") <= 1
            /\ \A j \in 1..Len(st) :
                 st[j] = "save" =>
                    /\ \E k \in 1..(j - 1) : st[k] = "load"
                    /\ \E k \in 1..(j - 1) : st[k] = "op"
            /\ (me.pc = "done" /\ me.cmd \in {"add", "remove"} /\ me.result.ok) =>
                  /\ st = <<"load", "op", "save">>
                  /\ read_data(file, TRUE) = Ok(me.data)
            /\ me.cmd \in {"get", "show"} =>
                  /\ Count(st, "save") = 0
                  /\ file = me.before

\* remove returned the removed user after its three steps
CommandSteps_Witness ==
    /\ proc[1].pc = "done"
    /\ proc[1].cmd = "remove"
    /\ proc[1].result = Ok(second_user)
    /\ proc[1].steps = <<"load", "op", "save">>
    /\ file # proc[1].before

\* C19: when the load of add or remove fails, the command returns that
\* failure, saves nothing and leaves the file as it was.
LoadFailureNoSave ==
    \A p \in Procs :
        (proc[p].cmd \in {"add", "remove"} /\ proc[p].load_err # None) =>
            /\ proc[p].pc = "done"
            /\ proc[p].steps = <<"load">>
            /\ proc[p].result =
                 Err(command_error(proc[p].cmd, proc[p].load_err.val))
            /\ file = proc[p].before

\* add on a file of malformed data
LoadFailureNoSave_Witness ==
    /\ proc[1].pc = "done"
    /\ proc[1].cmd = "add"
    /\ proc[1].load_err = Some("InvalidData")
    /\ proc[1].result = Err(io_error("InvalidData"))
    /\ file = proc[1].before
    /\ file.exists

\* the remove command ran to its end, without a refusal of the file system,
\* for an id that is not in the Store of the path, the path being absent or
\* written by an earlier command
RemoveAbsentCase(p) ==
    /\ proc[p].pc = "done"
    /\ proc[p].cmd = "remove"
    /\ ~proc[p].fault
    /\ proc[p].load_err = None
    /\ proc[p].id \notin DOMAIN proc[p].loaded.users
    /\ (proc[p].before = Absent \/ proc[p].by_cmd)

\* C20 as stated: such a remove returns UserNotFound, the path loads as the
\* same Store as before, and no file is created or rewritten.
RemoveAbsentNoWrite ==
    \A p \in Procs :
        RemoveAbsentCase(p) =>
            /\ proc[p].result = Err(user_not_found(proc[p].id))
            /\ read_data(file, TRUE) = read_data(proc[p].before, TRUE)
            /\ Count(proc[p].steps, "save") = 0
            /\ file.exists = proc[p].before.exists

\* C20 as amended: such a remove returns UserNotFound and the path loads as
\* the same Store as before; the command has saved that Store, so the file
\* is rewritten, and created when it was absent.
RemoveAbsentCommand ==
    \A p \in Procs :
        RemoveAbsentCase(p) =>
            /\ proc[p].result = Err(user_not_found(proc[p].id))
            /\ read_data(file, TRUE) = read_data(proc[p].before, TRUE)
            /\ proc[p].steps = <<"load", "op", "save">>
            /\ file.exists
            /\ writer = p

\* remove on an absent path: the file is created
RemoveAbsentCommand_Witness ==
    /\ RemoveAbsentCase(1)
    /\ proc[1].before = Absent
    /\ proc[1].id = 2
    /\ file.exists
    /\ proc[1].result = Err(user_not_found(2))

(***************************************************************************)
(* Properties of the load/save cycle (specification SpecCycle).            *)
(***************************************************************************)
\* the members of "u" as JSON has them: a set of key/value pairs
Members(c) == {<<c.u[j].k, c.u[j].v>> : j \in 1..Len(c.u)}

\* two documents are the same JSON document: the same "i", the same members
\* of "u", each key once
SameDocument(a, b) ==
    /\ a.syntax = "object" /\ b.syntax = "object"
    /\ a.has_i /\ b.has_i /\ a.i = b.i
    /\ a.has_u /\ b.has_u
    /\ Members(a) = Members(b)
    /\ Len(a.u) = Cardinality(Members(a))
    /\ Len(b.u) = Cardinality(Members(b))

\* C18 (idempotence of the persisted form): for a well-shaped document x,
\* save(load(save(load(x)))) is the same document as save(load(x)): the same
\* next identifier and the same map from id to record.
CycleFixedPoint ==
    (last.op = "cycle" /\ Len(last.docs) = 2) =>
        /\ SameDocument(last.docs[1], last.docs[2])
        /\ read_data([exists |-> TRUE, contents |-> last.docs[2]], TRUE)
             = read_data(last.x, TRUE)

\* x has the key "0" twice and an "i" that is a key; the two saves wrote
\* their members in different orders
CycleFixedPoint_Witness ==
    /\ last.op = "cycle"
    /\ Len(last.docs) = 2
    /\ last.x.contents.i = 0
    /\ Len(last.x.contents.u) = 2
    /\ last.docs[1].i = 0
    /\ last.docs[1] # last.docs[2]

KeySets == SUBSET (0..(MaxUsers + 1))

MapOver(S) == [k \in S |-> first_user]

\* C23 (the scan is bounded): for every finite map with n records the scan
\* of calculate_next_id ends after at most n + 1 calls of contains_key and
\* its result is at most n; so in every state reachable from Data::new() by
\* add_user, remove_user and reset, where next_id is the result of the last
\* scan, next_id is at most the number of records.
ScanBounded ==
    /\ \A S \in KeySets :
          /\ probes(MapOver(S), 0) <= Cardinality(S) + 1
          /\ probes(MapOver(S), 0) = calculate_next_id(MapOver(S)) + 1
          /\ calculate_next_id(MapOver(S)) <= Cardinality(S)
    /\ probes(data.users, 0) <= Cardinality(DOMAIN data.users) + 1
    /\ data.next_id <= Cardinality(DOMAIN data.users)

\* the worst case: keys 0..MaxUsers - 1 all present, the scan probes every
\* one of them and one more, and next_id is the number of records
ScanBounded_Witness ==
    /\ DOMAIN data.users = 0..(MaxUsers - 1)
    /\ probes(data.users, 0) = MaxUsers + 1
    /\ data.next_id = MaxUsers
    /\ last.op = "add_user"

(***************************************************************************)
(* Persistence against the store in memory (specification SpecRefine).     *)
(***************************************************************************)
\* C21 (persistence refines the store): after any sequence of add and remove
\* commands run one at a time on a path that did not exist, with no I/O
\* failure, the file loads to a Data with the same users and the same
\* next_id as the Data that got the same add_user and remove_user calls
\* from Data::new(); and every remove command returned the record that
\* remove_user returned in memory, or UserNotFound when that returned None.
PersistenceRefines ==
    /\ read_data(file, TRUE).ok
    /\ read_data(file, TRUE).val.users = data.users
    /\ read_data(file, TRUE).val.next_id = data.next_id
    /\ last.op = "remove" =>
          last.result = IF last.ret = None
                          THEN Err(user_not_found(last.id))
                          ELSE Ok(last.ret.val)

\* a remove command has just returned the record under 1 and left the
\* records under 0 and 2 in the file, with "i" back at 1
PersistenceRefines_Witness ==
    /\ last.op = "remove"
    /\ last.id = 1
    /\ last.ret # None
    /\ last.result.ok
    /\ DOMAIN data.users = {0, 2}
    /\ data.users[0] # data.users[2]
    /\ file.exists
    /\ file.contents.i = 1
    /\ Len(file.contents.u) = 2

====
